---- MODULE Spec2Model ----
(***************************************************************************)
(* Model of services/autopost.py: AutoPostService._sanitize_plan and       *)
(* AutoPostService.run.                                                    *)
(*                                                                         *)
(* Python values are modelled by records of one shape per kind of value:   *)
(*   a plan step     [isdict, tool, params]                                *)
(*   a params value  [key, isdict, id]                                     *)
(*   a plan value    [islist, items]                                       *)
(*   a text          [lead, core, trail]  (lengths of the leading white-   *)
(*                   space, of the part between the first and the last     *)
(*                   non-blank character, and of the trailing whitespace)  *)
(***************************************************************************)
EXTENDS Integers, Sequences, FiniteSets, TLC

\* ------------------------------------------------------------------ bounds
\* Longest raw plan the sanitizer is applied to in SpecSanitize.
MaxRawLen == 5
\* Longest raw plan the LLM returns in a run (Spec).
MaxRunPlanLen == 2
\* How far past the limit an LLM text may run.
MaxOver == 1

\* ------------------------------------------------------- program constants
\* autopost.py:82  "if len(sanitized) >= 3"
MaxPlanSteps == 3
\* autopost.py:191 "post_text.strip()[:280]"
TweetLimit == 280

\* ------------------------------------------------------------ tool registry
\* tools.registry.TOOLS: a dict from tool name to callable; run() names the
\* two entries "web_search" and "generate_image" (autopost.py:159,164).
TOOLS == {"web_search", "generate_image"}

\* Values the "tool" field of a step can hold.  NoTool is None (the key is
\* missing, step.get("tool")); ListTool is a JSON array or object, which
\* Python cannot hash.
NoTool == "<None>"
ListTool == "<list>"
UnknownTool == "delete_universe"
ToolVals == TOOLS \cup {UnknownTool, NoTool, ListTool}

\* "tool_name not in TOOLS" on a dict hashes tool_name: a list or a dict
\* raises TypeError.
Hashable(tool) == tool # ListTool

\* ------------------------------------------------------------------ params
\* key: the step has a "params" key; isdict: its value is a mapping;
\* id: which mapping it is.
Params(key, isdict, id) == [key |-> key, isdict |-> isdict, id |-> id]
\* step.get("params", {}): the default is the empty mapping, id 0.
NoParams == Params(FALSE, TRUE, 0)
EmptyParams == Params(TRUE, TRUE, 0)
GetParams(step) == IF step.params.key THEN step.params ELSE EmptyParams

\* -------------------------------------------------------------------- steps
Step(isdict, tool, params) == [isdict |-> isdict, tool |-> tool, params |-> params]
\* An entry that is not a mapping (a string, a number, a list).
NonDictStep == Step(FALSE, NoTool, NoParams)

\* --------------------------------------------------------- _sanitize_plan
\* The result of a call: it returns a list, or it raises.
Returned(plan) == [raised |-> FALSE, plan |-> plan]
Raised == [raised |-> TRUE, plan |-> <<>>]

IsImage(s) == s.tool = "generate_image"

RECURSIVE SelectSteps(_, _)
SelectSteps(sanitized, image) ==
    IF sanitized = <<>> THEN <<>>
    ELSE IF IsImage(Head(sanitized)) = image
         THEN <<Head(sanitized)>> \o SelectSteps(Tail(sanitized), image)
         ELSE SelectSteps(Tail(sanitized), image)

\* image_steps[:1]
FirstOf(steps) == IF steps = <<>> THEN <<>> ELSE <<Head(steps)>>

\* Lines 86-91: non-image steps first, then the first image step.
FinalPlan_imagefirst(sanitized) ==
    FirstOf(SelectSteps(sanitized, TRUE)) \o SelectSteps(sanitized, FALSE)
FinalPlan_noreorder(sanitized) == sanitized
FinalPlan(sanitized) ==
    SelectSteps(sanitized, FALSE) \o FirstOf(SelectSteps(sanitized, TRUE))

\* Line 70: "tool_name not in TOOLS" is false.
Registered_unchecked(tool_name) == TRUE
Registered(tool_name) == tool_name \in TOOLS

\* Line 80: the entry appended to sanitized.
NewStep_wrongkey(tool_name, params) == Step(TRUE, NoTool, params)
NewStep(tool_name, params) == Step(TRUE, tool_name, params)

\* Line 82: the plan is full.
PlanFull_offbyone(sanitized) == Len(sanitized) > MaxPlanSteps
PlanFull(sanitized) == Len(sanitized) >= MaxPlanSteps

\* Lines 64-84: the for loop, from entry k on.
RECURSIVE SanitizeLoop(_, _, _, _)
SanitizeLoop(items, k, sanitized, has_image) ==
    IF k > Len(items) THEN Returned(FinalPlan(sanitized))
    ELSE LET step == items[k]
             tool_name == step.tool
             params == GetParams(step)
         IN  IF ~step.isdict THEN SanitizeLoop(items, k + 1, sanitized, has_image)
             ELSE IF ~Hashable(tool_name) THEN Raised
             ELSE IF ~Registered(tool_name)
                  THEN SanitizeLoop(items, k + 1, sanitized, has_image)
             ELSE IF tool_name = "generate_image" /\ has_image
                  THEN SanitizeLoop(items, k + 1, sanitized, has_image)
             ELSE LET appended == Append(sanitized, NewStep(tool_name, params))
                  IN  IF PlanFull(appended)
                      THEN Returned(FinalPlan(appended))
                      ELSE SanitizeLoop(items, k + 1, appended,
                                        has_image \/ tool_name = "generate_image")

\* A plan value: a list of entries, or something that is not a list.
ListValue(items) == [islist |-> TRUE, items |-> items]
NonListValue == [islist |-> FALSE, items |-> <<>>]

sanitize_plan(plan) ==
    IF ~plan.islist THEN Returned(<<>>)
    ELSE SanitizeLoop(plan.items, 1, <<>>, FALSE)


\* ------------------------------------------------------------------- texts
\* A string by its lengths: leading whitespace, the part from the first to
\* the last non-blank character, trailing whitespace.  A blank string has
\* core = 0 and all its length in lead.
Txt(lead, core, trail) ==
    IF core = 0 THEN [lead |-> lead + trail, core |-> 0, trail |-> 0]
    ELSE [lead |-> lead, core |-> core, trail |-> trail]
EmptyText == Txt(0, 0, 0)
TextLen(t) == t.lead + t.core + t.trail
Min(a, b) == IF a < b THEN a ELSE b
\* str.strip()
Strip(t) == Txt(0, t.core, 0)
\* t[:n]
Slice(t, n) ==
    LET lead == Min(t.lead, n)
        core == Min(t.core, n - lead)
        trail == Min(t.trail, n - lead - core)
    IN  [lead |-> lead, core |-> core, trail |-> trail]
\* bool(t): a string is truthy when it is not empty.
Truthy(t) == TextLen(t) > 0

\* Lines 28-36: FALLBACK_TWEETS, each by its length in characters.
FALLBACK_TWEETS == <<76, 72, 72, 70, 78, 58, 65>>
FallbackText(k) == Txt(0, FALLBACK_TWEETS[k], 0)

\* Texts the LLM can produce: empty, blank, short, at the limit, over it.
CoreLens == {0, 1, TweetLimit} \cup (TweetLimit + 1 .. TweetLimit + MaxOver)

\* -------------------------------------------------------- decoded JSON values
\* A field of a post-text object: absent or falsy ("none"), a string ("str",
\* its text in txt), or a truthy value that is not a string ("other").
Field(t, txt) == [t |-> t, txt |-> txt]
NoField == Field("none", EmptyText)
OtherField == Field("other", EmptyText)
FieldTruthy(f) == f.t = "other" \/ (f.t = "str" /\ Truthy(f.txt))
\* a or b
Or(a, b) == IF FieldTruthy(a) THEN a ELSE b

\* A decoded JSON value as the plan parsing sees it.  t: "object", "array"
\* or "scalar"; for an object has_plan, plan and reasoning describe its
\* "plan" and "reasoning" keys (reasoning: "absent", "str", or "null" for a
\* value that cannot be sliced); an array holds n objects, the first of them
\* described by the same three fields.
JVal(t, has_plan, plan, reasoning, n) ==
    [t |-> t, has_plan |-> has_plan, plan |-> plan, reasoning |-> reasoning, n |-> n]
JObject(has_plan, plan, reasoning) == JVal("object", has_plan, plan, reasoning, 0)
JArray(n, first) == JVal("array", first.has_plan, first.plan, first.reasoning, n)
EmptyObject == JObject(FALSE, NonListValue, "absent")
JScalar == JVal("scalar", FALSE, NonListValue, "absent", 0)
\* The first object inside an array.
FirstObject(v) == JObject(v.has_plan, v.plan, v.reasoning)

\* A string is a sequence of segments: "json" (the text of the JSON value
\* val), "fence" (a ``` marker line), "prose" (text without braces) and
\* "braces" (text with a brace pair that is not JSON).
Seg(k, val) == [k |-> k, val |-> val]
JsonSeg(val) == Seg("json", val)
FenceSeg == Seg("fence", JScalar)
ProseSeg == Seg("prose", JScalar)
BracesSeg == Seg("braces", JScalar)

\* The outcome of a decode: a value, or JSONDecodeError.
Decoded(val) == [ok |-> TRUE, val |-> val]
DecodeError == [ok |-> FALSE, val |-> JScalar]

\* json.loads(s): s must be one JSON text.
json_loads(segs) ==
    IF Len(segs) = 1 /\ segs[1].k = "json" THEN Decoded(segs[1].val) ELSE DecodeError

\* A segment whose text holds a brace.
HasBrace(seg) ==
    \/ seg.k = "braces"
    \/ seg.k = "json" /\ seg.val.t = "object"
    \/ seg.k = "json" /\ seg.val.t = "array" /\ seg.val.n > 0
BraceSegs(segs) == {k \in 1..Len(segs) : HasBrace(segs[k])}

\* The text of the object holds the braces of an object inside it.
Nested(val) ==
    /\ val.has_plan
    /\ val.plan.islist
    /\ \E k \in 1..Len(val.plan.items) : val.plan.items[k].isdict
\* r"\{.*?\}": the text from the first "{" to the first "}".
RegexDecode_nongreedy(segs) ==
    LET B == {k \in 1..Len(segs) :
                segs[k].k = "braces" \/ (segs[k].k = "json" /\ segs[k].val.t # "scalar")}
    IN  IF B = {} THEN EmptyObject
        ELSE LET seg == segs[CHOOSE k \in B : \A j \in B : k <= j]
             IN  IF seg.k = "json" /\ seg.val.t = "object" /\ ~Nested(seg.val)
                 THEN seg.val
                 ELSE EmptyObject

\* Lines 133-138: re.search(r"\{.*\}", s, re.DOTALL) takes the text from the
\* first "{" to the last "}", and json.loads decodes it when that text is one
\* object: the only braces are those of one object, or of the single object
\* of an array.  Anything else leaves plan_result = {}.
RegexDecode(segs) ==
    LET B == BraceSegs(segs)
    IN  IF Cardinality(B) = 1
        THEN LET seg == segs[CHOOSE k \in B : TRUE]
             IN  IF seg.k = "json" /\ seg.val.t = "object" THEN seg.val
                 ELSE IF seg.k = "json" /\ seg.val.t = "array" /\ seg.val.n = 1
                      THEN FirstObject(seg.val)
                 ELSE EmptyObject
        ELSE EmptyObject

\* What LLMClient.chat returns: py is "dict" (obj), "str" (segs) or "other".
DictResponse(obj) == [py |-> "dict", obj |-> obj, segs |-> <<>>]
StrResponse(segs) == [py |-> "str", obj |-> JScalar, segs |-> segs]
OtherResponse == [py |-> "other", obj |-> JScalar, segs |-> <<>>]

\* The shape of a value llm.chat returned: a mapping, a string holding a JSON
\* object, a string holding another JSON value, a string that is not JSON,
\* or a value that is neither a mapping nor a string.
PlanShape(raw) ==
    IF raw.py = "dict" THEN "mapping"
    ELSE IF raw.py = "str"
         THEN IF ~json_loads(raw.segs).ok THEN "non_json"
              ELSE IF json_loads(raw.segs).val.t = "object" THEN "json_object"
              ELSE "json_nonobject"
    ELSE "other"

\* Lines 126-138: plan_result.
ParsePlanResult(raw) ==
    IF raw.py = "dict" THEN raw.obj
    ELSE IF raw.py = "str"
         THEN IF json_loads(raw.segs).ok THEN json_loads(raw.segs).val
              ELSE RegexDecode(raw.segs)
    ELSE EmptyObject

\* Lines 140-146: raw_plan, the sanitized plan, and whether the stage raises:
\* .get on a value that is not a dict, _sanitize_plan raising, reasoning[:100]
\* on a value that cannot be sliced.
PlanStage(raw) ==
    LET plan_result == ParsePlanResult(raw)
        raw_plan == IF plan_result.has_plan THEN plan_result.plan ELSE ListValue(<<>>)
        sanitized == sanitize_plan(raw_plan)
    IN  IF plan_result.t # "object"
        THEN [raised |-> TRUE, raw_plan |-> NonListValue, plan |-> <<>>]
        ELSE IF sanitized.raised \/ plan_result.reasoning = "null"
             THEN [raised |-> TRUE, raw_plan |-> raw_plan, plan |-> <<>>]
        ELSE [raised |-> FALSE, raw_plan |-> raw_plan, plan |-> sanitized.plan]

\* ------------------------------------------------------ post-text responses
\* What LLMClient.chat returns for POST_TEXT_SCHEMA.  py: "dict", "str" or
\* "other"; json (for a str): "object", "nonobject" or "invalid"; post_text and
\* post: the two fields of the object; raw: the text of the string itself.
PostResponse(py, json, post_text, post, raw) ==
    [py |-> py, json |-> json, post_text |-> post_text, post |-> post, raw |-> raw]

PostShape(resp) ==
    IF resp.py = "dict" THEN "mapping"
    ELSE IF resp.py = "str"
         THEN IF resp.json = "object" THEN "json_object"
              ELSE IF resp.json = "nonobject" THEN "json_nonobject"
              ELSE "non_json"
    ELSE "other"

\* Lines 181-189: post_text before strip, or the exception: .get on a decoded
\* value that is not a dict raises AttributeError, which "except
\* json.JSONDecodeError" does not catch.
ExtractPostText(resp) ==
    IF resp.py = "dict"
    THEN [raised |-> FALSE,
          f |-> Or(Or(resp.post_text, resp.post), Field("str", EmptyText))]
    ELSE IF resp.py = "str"
         THEN IF resp.json = "object"
              THEN [raised |-> FALSE,
                    f |-> Or(Or(resp.post_text, resp.post), Field("str", resp.raw))]
              ELSE IF resp.json = "nonobject"
                   THEN [raised |-> TRUE, f |-> NoField]
              ELSE [raised |-> FALSE, f |-> Field("str", resp.raw)]
    ELSE [raised |-> FALSE, f |-> Field("str", EmptyText)]

\* Line 191: post_text.strip()[:280].
StripAndTruncate_nocut(t) == Strip(t)
StripAndTruncate(t) == Slice(Strip(t), TweetLimit)

\* Lines 193-194: the substitution of the fallback tweet number k for an
\* empty text.
OrFallback(t, k) == IF ~Truthy(t) THEN Slice(FallbackText(k), TweetLimit) ELSE t

\* Lines 181-194: the text to post, or the exception (.strip() on a value
\* that is not a string).
ComposeText(resp, k) ==
    LET x == ExtractPostText(resp)
    IN  IF x.raised \/ x.f.t # "str" THEN [raised |-> TRUE, text |-> EmptyText]
        ELSE [raised |-> FALSE, text |-> OrFallback(StripAndTruncate(x.f.txt), k)]

\* ------------------------------------------------------------------ results
ErrorOf(kind, text) == [kind |-> kind, text |-> text]
NoError == ErrorOf("none", "")
RunResult(returned, success, keys, error, tweet_id, text, used, has_image) ==
    [returned |-> returned, success |-> success, keys |-> keys, error |-> error,
     tweet_id |-> tweet_id, text |-> text, tools_used |-> used, has_image |-> has_image]
NoResult == RunResult(FALSE, FALSE, {}, NoError, 0, EmptyText, <<>>, FALSE)
\* Lines 102-107.
BlockedResult(reason) ==
    RunResult(TRUE, FALSE, {"success", "error", "tier", "usage_percent"},
              ErrorOf("posting_blocked", reason), 0, EmptyText, <<>>, FALSE)
\* Lines 214-221.
SuccessResult(id, text, used, has_image) ==
    RunResult(TRUE, TRUE,
              {"success", "tweet_id", "text", "tools_used", "has_image", "duration_seconds"},
              NoError, id, text, used, has_image)
\* Line 227.
FailureResult(e) ==
    RunResult(TRUE, FALSE, {"success", "error", "duration_seconds"},
              ErrorOf("exception", e), 0, EmptyText, <<>>, FALSE)

\* One call on a collaborator: op, the tool or schema name, the text and the
\* number of media ids (post), the post id and image flag (save_post), and
\* whether the call returned (ok) or raised.
Call(op, name, text, media, id, img, ok) ==
    [op |-> op, name |-> name, text |-> text, media |-> media, id |-> id,
     img |-> img, ok |-> ok]
SimpleCall(op, name, ok) == Call(op, name, EmptyText, 0, 0, FALSE, ok)

\* ------------------------------------------------------------------- inputs
RECURSIVE SeqsOfLen(_, _)
SeqsOfLen(S, n) ==
    IF n = 0 THEN {<<>>} ELSE {Append(q, e) : q \in SeqsOfLen(S, n - 1), e \in S}
SeqsUpTo(S, n) == UNION {SeqsOfLen(S, k) : k \in 0..n}

\* Entries of the raw plans the sanitizer is applied to (SanInit draws every
\* list of at most MaxRawLen of them, and a value that is not a list).
SanEntries ==
    {NonDictStep, Step(TRUE, NoTool, NoParams), Step(TRUE, UnknownTool, NoParams),
     Step(TRUE, ListTool, NoParams)}
    \cup {Step(TRUE, t, p) : t \in TOOLS, p \in {NoParams, Params(TRUE, TRUE, 1)}}

\* Entries of the plans the LLM returns in a run.
RunEntries ==
    {NonDictStep, Step(TRUE, UnknownTool, NoParams), Step(TRUE, ListTool, NoParams),
     Step(TRUE, "web_search", Params(TRUE, TRUE, 1)),
     Step(TRUE, "web_search", Params(TRUE, FALSE, 0)),
     Step(TRUE, "generate_image", Params(TRUE, TRUE, 1))}
RunPlans == {NonListValue} \cup {ListValue(q) : q \in SeqsUpTo(RunEntries, MaxRunPlanLen)}
PlanObjects ==
    {EmptyObject} \cup {JObject(TRUE, p, r) : p \in RunPlans, r \in {"absent", "str", "null"}}
PlanResponses ==
    {DictResponse(o) : o \in PlanObjects}
    \cup {StrResponse(<<JsonSeg(o)>>) : o \in PlanObjects}
    \cup {StrResponse(<<FenceSeg, JsonSeg(o), FenceSeg>>) : o \in PlanObjects}
    \cup {StrResponse(<<ProseSeg, JsonSeg(o)>>) : o \in PlanObjects}
    \cup {StrResponse(<<JsonSeg(JArray(n, o))>>) : n \in 0..2, o \in {EmptyObject}}
    \cup {StrResponse(<<JsonSeg(JScalar)>>), StrResponse(<<ProseSeg>>),
          StrResponse(<<BracesSeg>>), StrResponse(<<>>),
          StrResponse(<<JsonSeg(EmptyObject), ProseSeg, JsonSeg(EmptyObject)>>),
          OtherResponse}

\* Texts and fields of the post-text responses.
EdgeTexts == {Txt(w, c, w) : w \in 0..1, c \in CoreLens}
PostTextFields == {NoField, OtherField} \cup {Field("str", t) : t \in EdgeTexts}
PostFields == {NoField, OtherField, Field("str", Txt(0, 1, 0)),
               Field("str", Txt(0, TweetLimit + MaxOver, 0))}
\* The text of a JSON object is at least "{}".
ObjectTexts == {Txt(0, TweetLimit, 0), Txt(0, TweetLimit + MaxOver, 1)}
PostResponses ==
    {PostResponse("dict", "object", a, b, EmptyText) : a \in PostTextFields, b \in PostFields}
    \cup {PostResponse("str", "object", a, b, r) :
            a \in PostTextFields, b \in PostFields, r \in ObjectTexts}
    \cup {PostResponse("str", "invalid", NoField, NoField, r) : r \in EdgeTexts}
    \cup {PostResponse("str", "nonobject", NoField, NoField, Txt(0, 1, 0)),
          PostResponse("other", "invalid", NoField, NoField, EmptyText)}

Reasons == {"daily_limit_reached", "monthly_limit_reached"}
TweetIds == {101, 102}
\* What generate_image returns: None, b"", or image bytes.
ImageValues == {"None", "empty", "bytes"}

\* What can_post() returned.
CanPostRet(called, allowed, reason) ==
    [called |-> called, allowed |-> allowed, reason |-> reason]

\* -------------------------------------------------------------------- state
VARIABLES
    tier_manager,   \* self.tier_manager is set
    can_post_ret,   \* what tier_manager.can_post() returned
    pc,             \* where run() is
    messages,       \* the roles of the transcript
    raw_plan,       \* plan_result.get("plan", [])
    plan,           \* the sanitized plan
    i,              \* index of the step being executed (1-based)
    image_bytes,    \* "None", "empty" or "bytes"
    tools_used,
    post_text,
    media_ids,
    tweet_id,       \* tweet_data["id"], 0 before the post
    result,         \* what run() returned
    calls,          \* the calls made on the collaborators, in order
    llm_ret,        \* the shape of what the last llm.chat call returned
    san_pc,         \* where the stand-alone use of _sanitize_plan is
    san_arg,        \* its argument
    san_ret,        \* its result
    san_twice,      \* the result of sanitizing san_ret again
    par_obj,        \* the plan object whose encodings are parsed
    par_out         \* for each encoding, what parsing it gave

runvars == <<tier_manager, can_post_ret, pc, messages, raw_plan, plan, i, image_bytes, tools_used,
             post_text, media_ids, tweet_id, result, calls, llm_ret>>
sanvars == <<san_pc, san_arg, san_ret, san_twice>>
parvars == <<par_obj, par_out>>
vars == <<runvars, sanvars, parvars>>

\* Lines 50-54 and the locals of run() before its first statement.
RunInit ==
    /\ tier_manager \in BOOLEAN
    /\ can_post_ret = CanPostRet(FALSE, FALSE, "")
    /\ pc = "gate"
    /\ messages = <<>>
    /\ raw_plan = NonListValue
    /\ plan = <<>>
    /\ i = 0
    /\ image_bytes = "None"
    /\ tools_used = <<>>
    /\ post_text = EmptyText
    /\ media_ids = <<>>
    /\ tweet_id = 0
    /\ result = NoResult
    /\ calls = <<>>
    /\ llm_ret = "none"

SanIdle ==
    /\ san_pc = "idle"
    /\ san_arg = NonListValue
    /\ san_ret = Returned(<<>>)
    /\ san_twice = Returned(<<>>)

\* The ways llm.chat can hand over one plan object: as a mapping, as the
\* bare JSON text, or as the JSON text inside a fenced code block.
Encodings == {"mapping", "bare", "fenced"}
Encode(obj, enc) ==
    IF enc = "mapping" THEN DictResponse(obj)
    ELSE IF enc = "bare" THEN StrResponse(<<JsonSeg(obj)>>)
    ELSE StrResponse(<<FenceSeg, JsonSeg(obj), FenceSeg>>)
\* The outcome of lines 126-142 on one encoding.
Parsed(done, plan_result, stage) ==
    [done |-> done, plan_result |-> plan_result, stage |-> stage]
NotParsed == Parsed(FALSE, EmptyObject, PlanStage(DictResponse(EmptyObject)))

ParIdle ==
    /\ par_obj = EmptyObject
    /\ par_out = [enc \in Encodings |-> NotParsed]

Init == RunInit /\ SanIdle /\ ParIdle

\* return <dict>
Return(r) == result' = r /\ pc' = "done"
\* Lines 223-227: the handler of every exception raised inside the try.
Except(e) == Return(FailureResult(e))

\* ------------------------------------------------------------------ actions
\* Line 100: "if not can_post".
GateBlocks_never(can_post) == FALSE
GateBlocks(can_post) == ~can_post

\* Lines 98-107: the gate.  tier and get_usage_percent() read the quota
\* collaborator's state.
Gate ==
    /\ pc = "gate"
    /\ IF tier_manager
       THEN \E can_post \in BOOLEAN, reason \in Reasons :
              /\ calls' = Append(calls, SimpleCall("can_post", "tier_manager", TRUE))
              /\ can_post_ret' = CanPostRet(TRUE, can_post, reason)
              /\ IF GateBlocks(can_post)
                 THEN Return(BlockedResult(reason))
                 ELSE pc' = "load" /\ UNCHANGED result
       ELSE pc' = "load" /\ UNCHANGED <<result, calls, can_post_ret>>
    /\ UNCHANGED <<tier_manager, messages, raw_plan, plan, i, image_bytes, tools_used,
                   post_text, media_ids, tweet_id, llm_ret, sanvars, parvars>>

\* Lines 109-121: the recent posts are read and the transcript starts with
\* the system prompt and the first user message.
LoadContext ==
    /\ pc = "load"
    /\ \E ok \in BOOLEAN :
         /\ calls' = Append(calls, SimpleCall("get_recent_posts", "db", ok))
         /\ IF ok
            THEN /\ messages' = <<"system", "user">>
                 /\ pc' = "plan"
                 /\ UNCHANGED result
            ELSE /\ Except("DatabaseError")
                 /\ UNCHANGED messages
    /\ UNCHANGED <<tier_manager, can_post_ret, raw_plan, plan, i, image_bytes, tools_used, post_text,
                   media_ids, tweet_id, llm_ret, sanvars, parvars>>

\* Lines 123-152: the plan is asked for, parsed and sanitized, and the
\* locals of the tool loop are set.
CreatePlan ==
    /\ pc = "plan"
    /\ \/ /\ calls' = Append(calls, SimpleCall("llm_chat", "PLAN_SCHEMA", FALSE))
          /\ llm_ret' = "raised"
          /\ Except("LLMError")
          /\ UNCHANGED <<messages, raw_plan, plan, i>>
       \/ \E raw \in PlanResponses :
            LET stage == PlanStage(raw)
            IN  /\ calls' = Append(calls, SimpleCall("llm_chat", "PLAN_SCHEMA", TRUE))
                /\ llm_ret' = PlanShape(raw)
                /\ raw_plan' = stage.raw_plan
                /\ IF stage.raised
                   THEN /\ Except("PlanError")
                        /\ UNCHANGED <<messages, plan, i>>
                   ELSE /\ plan' = stage.plan
                        /\ messages' = Append(messages, "assistant")
                        /\ i' = 1
                        /\ pc' = IF stage.plan = <<>> THEN "compose" ELSE "tool"
                        /\ UNCHANGED result
    /\ UNCHANGED <<tier_manager, can_post_ret, image_bytes, tools_used, post_text, media_ids,
                   tweet_id, sanvars, parvars>>

\* Lines 166-171: the generate_image call is inside try/except Exception.
ImageFailureCaught_not == FALSE
ImageFailureCaught == TRUE

\* Lines 155-171: one step of the plan up to its reaction call.
ExecuteTool ==
    /\ pc = "tool"
    /\ LET step == plan[i]
           tool_name == step.tool
           params == step.params
       IN  /\ tools_used' = Append(tools_used, tool_name)
           /\ IF tool_name \in {"web_search", "generate_image"} /\ ~params.isdict
              THEN \* params.get on a value that is not a dict
                   /\ Except("AttributeError")
                   /\ UNCHANGED <<messages, image_bytes, calls>>
              ELSE IF tool_name = "web_search"
              THEN \E ok \in BOOLEAN :
                     /\ calls' = Append(calls, SimpleCall("tool", tool_name, ok))
                     /\ IF ok
                        THEN /\ messages' = Append(messages, "user")
                             /\ pc' = "react"
                             /\ UNCHANGED result
                        ELSE /\ Except("ToolError")
                             /\ UNCHANGED messages
                     /\ UNCHANGED image_bytes
              ELSE IF tool_name = "generate_image"
              THEN \E ok \in BOOLEAN, bytes \in ImageValues :
                     /\ calls' = Append(calls, SimpleCall("tool", tool_name, ok))
                     /\ IF ok
                        THEN /\ image_bytes' = bytes
                             /\ messages' = Append(messages, "user")
                             /\ pc' = "react"
                             /\ UNCHANGED result
                        ELSE IF ImageFailureCaught
                        THEN /\ image_bytes' = "None"
                             /\ pc' = "react"
                             /\ UNCHANGED <<messages, result>>
                        ELSE /\ Except("ToolError")
                             /\ UNCHANGED <<messages, image_bytes>>
              ELSE /\ pc' = "react"
                   /\ UNCHANGED <<messages, image_bytes, calls, result>>
    /\ UNCHANGED <<tier_manager, can_post_ret, raw_plan, plan, i, post_text, media_ids, tweet_id,
                   llm_ret, sanvars, parvars>>

\* What llm.chat returns for TOOL_REACTION_SCHEMA: a mapping with or without
\* "thinking", or a string of one of the three shapes.
ReactionResponses == {"thinking", "no_thinking", "json_object", "json_nonobject", "non_json"}
ReactionShape(r) == IF r \in {"thinking", "no_thinking"} THEN "mapping" ELSE r

\* Lines 173-174: the reaction to the step.  The value is used as returned:
\* reaction.get on a str raises AttributeError.
React ==
    /\ pc = "react"
    /\ \E r \in ReactionResponses \cup {"raise"} :
         /\ calls' = Append(calls, SimpleCall("llm_chat", "TOOL_REACTION_SCHEMA",
                                              r # "raise"))
         /\ llm_ret' = IF r = "raise" THEN "raised" ELSE ReactionShape(r)
         /\ IF r = "raise" THEN Except("LLMError") /\ UNCHANGED <<messages, i>>
            ELSE IF ReactionShape(r) # "mapping"
                 THEN Except("AttributeError") /\ UNCHANGED <<messages, i>>
            ELSE /\ messages' = Append(messages, "assistant")
                 /\ i' = i + 1
                 /\ pc' = IF i < Len(plan) THEN "tool" ELSE "compose"
                 /\ UNCHANGED result
    /\ UNCHANGED <<tier_manager, can_post_ret, raw_plan, plan, image_bytes, tools_used, post_text,
                   media_ids, tweet_id, sanvars, parvars>>

\* Lines 176-200: the tweet text is asked for and composed.
Compose ==
    /\ pc = "compose"
    /\ messages' = Append(messages, "user")
    /\ \/ /\ calls' = Append(calls, SimpleCall("llm_chat", "POST_TEXT_SCHEMA", FALSE))
          /\ llm_ret' = "raised"
          /\ Except("LLMError")
          /\ UNCHANGED post_text
       \/ \E resp \in PostResponses, k \in 1..Len(FALLBACK_TWEETS) :
            LET composed == ComposeText(resp, k)
            IN  /\ calls' = Append(calls, SimpleCall("llm_chat", "POST_TEXT_SCHEMA", TRUE))
                /\ llm_ret' = PostShape(resp)
                /\ IF composed.raised
                   THEN Except("AttributeError") /\ UNCHANGED post_text
                   ELSE /\ post_text' = composed.text
                        /\ pc' = IF image_bytes = "bytes" THEN "upload" ELSE "post"
                        /\ UNCHANGED result
    /\ UNCHANGED <<tier_manager, can_post_ret, raw_plan, plan, i, image_bytes, tools_used, media_ids,
                   tweet_id, sanvars, parvars>>

\* Line 206: image_bytes after a failed upload.
ImageAfterUploadFailure_kept(bytes) == bytes
ImageAfterUploadFailure(bytes) == "None"

\* Lines 200-206: the image is uploaded; a failure drops the image.
UploadMedia ==
    /\ pc = "upload"
    /\ \E ok \in BOOLEAN :
         /\ calls' = Append(calls, SimpleCall("upload_media", "twitter", ok))
         /\ IF ok
            THEN media_ids' = <<"media_id">> /\ UNCHANGED image_bytes
            ELSE image_bytes' = ImageAfterUploadFailure(image_bytes) /\ UNCHANGED media_ids
    /\ pc' = "post"
    /\ UNCHANGED <<tier_manager, can_post_ret, messages, raw_plan, plan, i, tools_used, post_text,
                   tweet_id, result, llm_ret, sanvars, parvars>>

\* Line 208: the post.
Publish ==
    /\ pc = "post"
    /\ \/ /\ calls' = Append(calls, Call("post", "twitter", post_text, Len(media_ids),
                                         0, FALSE, FALSE))
          /\ Except("TwitterError")
          /\ UNCHANGED tweet_id
       \/ \E id \in TweetIds :
            /\ calls' = Append(calls, Call("post", "twitter", post_text, Len(media_ids),
                                           id, FALSE, TRUE))
            /\ tweet_id' = id
            /\ pc' = "save"
            /\ UNCHANGED result
    /\ UNCHANGED <<tier_manager, can_post_ret, messages, raw_plan, plan, i, image_bytes, tools_used,
                   post_text, media_ids, llm_ret, sanvars, parvars>>

\* Line 209: db.save_post(post_text, tweet_data["id"], image_bytes is not None).
SaveCall_noid(text, id, bytes, ok) == Call("save_post", "db", text, 0, 0, bytes # "None", ok)
SaveCall(text, id, bytes, ok) == Call("save_post", "db", text, 0, id, bytes # "None", ok)

\* Lines 209-221: the post is saved and the result returned.
SavePost ==
    /\ pc = "save"
    /\ \E ok \in BOOLEAN :
         /\ calls' = Append(calls, SaveCall(post_text, tweet_id, image_bytes, ok))
         /\ IF ok
            THEN Return(SuccessResult(tweet_id, post_text, tools_used,
                                      image_bytes # "None"))
            ELSE Except("DatabaseError")
    /\ UNCHANGED <<tier_manager, can_post_ret, messages, raw_plan, plan, i, image_bytes, tools_used,
                   post_text, media_ids, tweet_id, llm_ret, sanvars, parvars>>

Next ==
    \/ Gate
    \/ LoadContext
    \/ CreatePlan
    \/ ExecuteTool
    \/ React
    \/ Compose
    \/ UploadMedia
    \/ Publish
    \/ SavePost

Spec == Init /\ [][Next]_vars

\* ------------------------------------------- _sanitize_plan on its own
SanInit ==
    /\ RunInit
    /\ tier_manager = FALSE
    /\ san_pc = "call"
    /\ \/ san_arg = NonListValue
       \/ \E n \in 0..MaxRawLen : \E f \in [1..n -> SanEntries] :
            san_arg = ListValue([k \in 1..n |-> f[k]])
    /\ san_ret = Returned(<<>>)
    /\ san_twice = Returned(<<>>)
    /\ ParIdle

\* plan = self._sanitize_plan(raw_plan)
SanitizeCall ==
    /\ san_pc = "call"
    /\ san_ret' = sanitize_plan(san_arg)
    /\ san_pc' = IF san_ret'.raised THEN "raised" ELSE "returned"
    /\ UNCHANGED <<san_arg, san_twice, runvars, parvars>>

\* self._sanitize_plan(plan) on the plan just returned
SanitizeAgain ==
    /\ san_pc = "returned"
    /\ san_twice' = sanitize_plan(ListValue(san_ret.plan))
    /\ san_pc' = "again"
    /\ UNCHANGED <<san_arg, san_ret, runvars, parvars>>

SanNext == SanitizeCall \/ SanitizeAgain

SpecSanitize == SanInit /\ [][SanNext]_vars

\* ------------------------------------------- the plan parsing on its own
ParInit ==
    /\ RunInit
    /\ tier_manager = FALSE
    /\ SanIdle
    /\ par_obj \in PlanObjects
    /\ par_out = [enc \in Encodings |-> NotParsed]

\* Lines 124-142 on par_obj handed over in the encoding enc.
ParseEncoded(enc) ==
    /\ ~par_out[enc].done
    /\ par_out' = [par_out EXCEPT
                     ![enc] = Parsed(TRUE, ParsePlanResult(Encode(par_obj, enc)),
                                     PlanStage(Encode(par_obj, enc)))]
    /\ UNCHANGED <<par_obj, runvars, sanvars>>

ParNext == \E enc \in Encodings : ParseEncoded(enc)

SpecParse == ParInit /\ [][ParNext]_vars

\* ------------------------------------------------------------------ claims
PostCalls == {k \in DOMAIN calls : calls[k].op = "post"}
ToolCalls == {k \in DOMAIN calls : calls[k].op = "tool"}
IsFallbackText(t) == \E k \in DOMAIN FALLBACK_TWEETS : t = FallbackText(k)
SanReturned == san_pc \in {"returned", "again"}

\* The image steps of a raw plan, and the entries steps 2-4 of the
\* sanitizer accept: mappings naming a registered tool, but for a
\* generate_image step that follows another one.
ImageIdx(items) == {k \in 1..Len(items) : items[k].isdict /\ IsImage(items[k])}
AcceptedIdx(items) ==
    {k \in 1..Len(items) :
        /\ items[k].isdict
        /\ items[k].tool \in TOOLS
        /\ IsImage(items[k]) => \A j \in ImageIdx(items) : j >= k}
\* The first MaxPlanSteps of them.
FirstAccepted(items) ==
    {k \in AcceptedIdx(items) :
        Cardinality({j \in AcceptedIdx(items) : j < k}) < MaxPlanSteps}
\* An entry as {"tool": ..., "params": ...}.
Entry(step) == Step(TRUE, step.tool, GetParams(step))
OutImages(out) == {k \in 1..Len(out) : IsImage(out[k])}

\* C1: a run that raised after the gate has made one platform post call with
\* a fallback text and no media, saved with image flag false when that post
\* succeeded; and a run that ended without any post call was blocked by the
\* gate.
C1_FallbackPublishOnFailure ==
    pc = "done" =>
        /\ result.error.kind = "exception" =>
             \E k \in PostCalls :
                /\ \A j \in PostCalls : j <= k
                /\ IsFallbackText(calls[k].text)
                /\ calls[k].media = 0
                /\ calls[k].ok =>
                     \E j \in DOMAIN calls :
                        /\ j > k
                        /\ calls[j].op = "save_post"
                        /\ calls[j].text = calls[k].text
                        /\ ~calls[j].img
        /\ PostCalls = {} => result.error.kind = "posting_blocked"

\* C2: once can_post() has returned not-allowed the run is over, its result
\* is success=false with the reason as error, and the only call ever made on
\* a collaborator is can_post() itself.
C2_GateBlockEndsRun ==
    (can_post_ret.called /\ ~can_post_ret.allowed) =>
        /\ pc = "done"
        /\ result.returned
        /\ ~result.success
        /\ "error" \in result.keys
        /\ result.error = ErrorOf("posting_blocked", can_post_ret.reason)
        /\ Len(calls) = 1
        /\ calls[1].op = "can_post"
C2_Witness ==
    /\ tier_manager
    /\ can_post_ret.called
    /\ ~can_post_ret.allowed
    /\ pc = "done"

\* C3: a finished run has returned a result of one of three shapes: success
\* with a tweet id; policy block with the reason; failure with an error and
\* a fallback_posted flag.
C3_StructuredResult ==
    pc = "done" =>
        /\ result.returned
        /\ "success" \in result.keys
        /\ \/ result.success /\ "tweet_id" \in result.keys
           \/ /\ ~result.success
              /\ result.error.kind = "posting_blocked"
              /\ "error" \in result.keys
           \/ /\ ~result.success
              /\ result.error.kind = "exception"
              /\ "error" \in result.keys
              /\ "fallback_posted" \in result.keys

\* C4: every text passed to twitter.post is non-empty and at most 280
\* characters long.
C4_PostTextWithinLimit ==
    \A k \in PostCalls :
        /\ TextLen(calls[k].text) >= 1
        /\ TextLen(calls[k].text) <= TweetLimit
C4_Witness ==
    /\ \E k \in PostCalls : TextLen(calls[k].text) = TweetLimit
    /\ result.success

\* C5: the output of _sanitize_plan holds at most one generate_image entry,
\* and such an entry is its last element.
C5_OneImageLast ==
    SanReturned =>
        /\ Cardinality(OutImages(san_ret.plan)) <= 1
        /\ \A k \in OutImages(san_ret.plan) : k = Len(san_ret.plan)
C5_Witness ==
    /\ san_pc = "returned"
    /\ OutImages(san_ret.plan) = {Len(san_ret.plan)}
    /\ \E k \in ImageIdx(san_arg.items) :
         \E j \in AcceptedIdx(san_arg.items) : j > k /\ j \in FirstAccepted(san_arg.items)

\* C6: the output of _sanitize_plan has at most 3 entries, and they are
\* exactly the first (at most 3) accepted entries of the input, each as
\* often as it occurs among them.
C6_FirstThreeAccepted ==
    SanReturned =>
        LET out == san_ret.plan
            items == san_arg.items
            kept == FirstAccepted(items)
        IN  /\ Len(out) <= MaxPlanSteps
            /\ Len(out) = Cardinality(kept)
            /\ \A e \in {Entry(items[k]) : k \in kept} :
                 Cardinality({k \in 1..Len(out) : out[k] = e})
                   = Cardinality({k \in kept : Entry(items[k]) = e})
C6_Witness ==
    /\ san_pc = "returned"
    /\ Len(san_ret.plan) = MaxPlanSteps
    /\ Cardinality(AcceptedIdx(san_arg.items)) > MaxPlanSteps

\* C7: every entry of the sanitized plan names a registered tool; the tools
\* invoked in a run are registered tools of the sanitized plan, used in its
\* order; and a raw plan that names no registered tool gives the empty plan,
\* no tool call and an empty tools_used.
NamesNoRegisteredTool(p) ==
    /\ p.islist
    /\ Len(p.items) > 0
    /\ \A k \in 1..Len(p.items) : p.items[k].tool \notin TOOLS \cup {ListTool}
C7_OnlyRegisteredTools ==
    /\ \A k \in 1..Len(plan) : plan[k].tool \in TOOLS
    /\ \A k \in ToolCalls :
         /\ calls[k].name \in TOOLS
         /\ \E j \in 1..Len(plan) : plan[j].tool = calls[k].name
    /\ Len(tools_used) <= Len(plan)
    /\ \A k \in 1..Len(tools_used) : tools_used[k] = plan[k].tool
    /\ NamesNoRegisteredTool(raw_plan) =>
         /\ plan = <<>>
         /\ tools_used = <<>>
         /\ ToolCalls = {}
         /\ result.returned => result.tools_used = <<>>
C7_Witness ==
    /\ NamesNoRegisteredTool(raw_plan)
    /\ \E k \in 1..Len(raw_plan.items) : raw_plan.items[k].tool = UnknownTool
    /\ pc = "done"
    /\ result.success
    /\ "tools_used" \in result.keys
    /\ result.tools_used = <<>>

\* C8 as stated: whenever the input holds two or more generate_image steps
\* the output holds exactly one, as its last element.
C8_ExactlyOneImage ==
    (SanReturned /\ Cardinality(ImageIdx(san_arg.items)) >= 2) =>
        OutImages(san_ret.plan) = {Len(san_ret.plan)} /\ Len(san_ret.plan) > 0

\* C8 amended: whenever the input holds two or more generate_image steps and
\* _sanitize_plan returns, the output holds exactly one generate_image step,
\* as its last element, if fewer than 3 accepted entries precede the first
\* generate_image step of the input, and none otherwise.
C8_OneImageUnlessTruncated ==
    (SanReturned /\ Cardinality(ImageIdx(san_arg.items)) >= 2) =>
        LET items == san_arg.items
            out == san_ret.plan
            first == CHOOSE k \in ImageIdx(items) : \A j \in ImageIdx(items) : k <= j
            before == {j \in AcceptedIdx(items) : j < first}
        IN  IF Cardinality(before) < MaxPlanSteps
            THEN OutImages(out) = {Len(out)} /\ Len(out) > 0
            ELSE OutImages(out) = {}
C8_Witness ==
    /\ san_pc = "returned"
    /\ Cardinality(ImageIdx(san_arg.items)) >= 2
    /\ Len(san_ret.plan) >= 2
    /\ OutImages(san_ret.plan) = {Len(san_ret.plan)}
    /\ ~IsImage(san_arg.items[Len(san_arg.items)])

\* C9: on a malformed input (not a list, or a list without any mapping that
\* names a registered tool) _sanitize_plan returns the empty list and does
\* not raise.
Malformed(p) ==
    \/ ~p.islist
    \/ \A k \in 1..Len(p.items) : ~p.items[k].isdict \/ p.items[k].tool \notin TOOLS
C9_TotalOnMalformed ==
    (san_pc # "call" /\ Malformed(san_arg)) =>
        /\ ~san_ret.raised
        /\ san_ret.plan = <<>>

\* C10: sanitizing the output of _sanitize_plan again returns the same plan,
\* entry for entry.
C10_Idempotent ==
    san_pc = "again" =>
        /\ ~san_twice.raised
        /\ san_twice.plan = san_ret.plan
C10_Witness ==
    /\ san_pc = "again"
    /\ Len(san_ret.plan) = MaxPlanSteps
    /\ OutImages(san_ret.plan) # {}
    /\ \E k \in 1..Len(san_arg.items) : ~san_arg.items[k].params.key /\ k \in FirstAccepted(san_arg.items)
    /\ IsImage(san_arg.items[1])

\* The last call made on a collaborator.
LastCall == calls[Len(calls)]
Failed == pc = "done" /\ result.error.kind = "exception"
LLMCalls(schema) == {k \in DOMAIN calls : calls[k].op = "llm_chat" /\ calls[k].name = schema}
SaveCalls == {k \in DOMAIN calls : calls[k].op = "save_post"}
UploadCalls == {k \in DOMAIN calls : calls[k].op = "upload_media"}
ImageFailed == \E k \in ToolCalls : calls[k].name = "generate_image" /\ ~calls[k].ok
UploadFailed == \E k \in UploadCalls : ~calls[k].ok

\* C11: whatever llm.chat returns (a mapping, a JSON-object string, a JSON
\* string that decodes to a non-object, a non-JSON string), the run does not
\* take the exception path on it: no run fails with a returned llm.chat call
\* as its last call.
LLMShapes == {"mapping", "json_object", "json_nonobject", "non_json"}
C11_MalformedOutputAbsorbed ==
    (calls # <<>> /\ LastCall.op = "llm_chat" /\ LastCall.ok /\ llm_ret \in LLMShapes)
        => ~Failed

\* C12: a web_search call that raised leaves the run going: the reaction to
\* the step comes next.
C12_SearchFailureAbsorbed ==
    (calls # <<>> /\ LastCall.op = "tool" /\ LastCall.name = "web_search" /\ ~LastCall.ok)
        => pc = "react"

\* C13: once generate_image has raised, the run goes on to the reaction, the
\* image slot is and stays empty, no media is uploaded, every post is made
\* without media and the saved and returned has_image are false.
C13_ImageFailureAbsorbed ==
    ImageFailed =>
        /\ image_bytes = "None"
        /\ media_ids = <<>>
        /\ UploadCalls = {}
        /\ (LastCall.op = "tool" /\ ~LastCall.ok) => pc = "react"
        /\ \A k \in PostCalls : calls[k].media = 0
        /\ \A k \in SaveCalls : ~calls[k].img
        /\ result.success => ~result.has_image
C13_Witness ==
    /\ ImageFailed
    /\ pc = "done"
    /\ result.success
    /\ ~result.has_image
    /\ PostCalls # {}
    /\ LLMCalls("TOOL_REACTION_SCHEMA") # {}

\* C16: one plan object parses to the same plan_result, and sanitizes to
\* the same plan, whether llm.chat hands it over as a mapping, as bare JSON
\* text or as JSON text inside a fenced code block.
C16_EncodingIndependent ==
    \A e1, e2 \in Encodings :
        (par_out[e1].done /\ par_out[e2].done) =>
            /\ par_out[e1].plan_result = par_out[e2].plan_result
            /\ par_out[e1].stage = par_out[e2].stage
C16_Witness ==
    /\ \A enc \in Encodings : par_out[enc].done
    /\ par_out["fenced"].plan_result = par_obj
    /\ ~par_out["fenced"].stage.raised
    /\ Len(par_out["fenced"].stage.plan) = MaxRunPlanLen
    /\ par_out["fenced"].stage.plan # par_obj.plan.items

\* C14: once upload_media has raised, the image slot is empty, the post call
\* comes next and carries no media id, and the saved and the returned
\* has_image are false.
C14_UploadFailureAbsorbed ==
    UploadFailed =>
        /\ image_bytes = "None"
        /\ media_ids = <<>>
        /\ LastCall.op = "upload_media" => pc = "post"
        /\ \A k \in PostCalls : calls[k].media = 0
        /\ \A k \in SaveCalls : ~calls[k].img
        /\ result.success => ~result.has_image
C14_Witness ==
    /\ UploadFailed
    /\ \E k \in PostCalls : calls[k].ok /\ calls[k].media = 0
    /\ \E k \in SaveCalls : calls[k].ok /\ ~calls[k].img
    /\ result.success
    /\ ~result.has_image

\* C15: save_post is called at most once in a run, right after a post call
\* that returned an identifier and with that post's text and identifier; a
\* successful run has made exactly one save_post call, a run without a
\* successful post none.
C15_SaveOncePerPost ==
    /\ Cardinality(SaveCalls) <= 1
    /\ \A j \in SaveCalls :
         /\ j - 1 \in PostCalls
         /\ calls[j - 1].ok
         /\ calls[j - 1].id \in TweetIds
         /\ calls[j].text = calls[j - 1].text
         /\ calls[j].id = calls[j - 1].id
    /\ result.success => Cardinality(SaveCalls) = 1
    /\ (\A k \in PostCalls : ~calls[k].ok) => SaveCalls = {}
C15_Witness ==
    /\ result.success
    /\ \E j \in SaveCalls : calls[j].ok /\ calls[j].id = result.tweet_id
    /\ Cardinality(PostCalls) = 1

\* C17: every tool call, returned or raised, is followed by exactly one
\* reaction call; and once composition is reached there are as many reaction
\* calls, and as many assistant entries after the plan's, as the sanitized
\* plan has steps.
AssistantEntries == {k \in 1..Len(messages) : messages[k] = "assistant"}
C17_OneReactionPerStep ==
    /\ \A k \in ToolCalls :
         IF k = Len(calls) THEN pc = "react"
         ELSE /\ calls[k + 1].op = "llm_chat"
              /\ calls[k + 1].name = "TOOL_REACTION_SCHEMA"
    /\ (pc \in {"compose", "upload", "post", "save"} \/ result.success) =>
         /\ Cardinality(LLMCalls("TOOL_REACTION_SCHEMA")) = Len(plan)
         /\ Cardinality(AssistantEntries) = 1 + Len(plan)

\* C18: the tools are invoked in the order of the sanitized plan, a
\* generate_image call is the last tool call and there is at most one, no
\* tool is invoked after the post text has been asked for, and a successful
\* run returns the plan's tool names, in order, as tools_used.
ToolCallNumber(k) == Cardinality({j \in ToolCalls : j <= k})
C18_ToolsInPlanOrder ==
    /\ \A k \in ToolCalls :
         /\ ToolCallNumber(k) <= Len(plan)
         /\ calls[k].name = plan[ToolCallNumber(k)].tool
         /\ calls[k].name = "generate_image" => \A j \in ToolCalls : j <= k
    /\ Cardinality({k \in ToolCalls : calls[k].name = "generate_image"}) <= 1
    /\ \A k \in LLMCalls("POST_TEXT_SCHEMA") : \A j \in ToolCalls : j < k
    /\ result.success =>
         /\ Len(result.tools_used) = Len(plan)
         /\ \A k \in 1..Len(plan) : result.tools_used[k] = plan[k].tool
C18_Witness ==
    /\ result.success
    /\ Len(plan) = 2
    /\ raw_plan.islist
    /\ IsImage(raw_plan.items[1])
    /\ IsImage(plan[2])
    /\ Cardinality(ToolCalls) = 2
    /\ result.tools_used = <<"web_search", "generate_image">>

\* C19: after the system entry the roles of the transcript alternate user,
\* assistant, user, ..., and every llm.chat call is made on a transcript
\* whose last entry has role user.
C19_TranscriptAlternates ==
    /\ messages # <<>> => messages[1] = "system"
    /\ \A k \in 2..Len(messages) :
         messages[k] = IF k % 2 = 0 THEN "user" ELSE "assistant"
    /\ pc \in {"plan", "react"} => messages[Len(messages)] = "user"

\* C20: the has_image saved with a post and the has_image returned for it are
\* equal, and true exactly when the post call carried one media id.
C20_HasImageTruthful ==
    \A j \in SaveCalls :
        /\ j - 1 \in PostCalls
        /\ calls[j].img = (calls[j - 1].media = 1)
        /\ result.success => result.has_image = calls[j].img

====
